---- MODULE Spec2Model ----
(***************************************************************************)
(* The two Redis-backed rate-limit middlewares of the repository:          *)
(*   rateLimitMiddleware   (rateLimiterService.ts): a counter per IP,      *)
(*                         GET, then SET .. EX ttl or INCR;                *)
(*   rateLimiterMiddleware (rateLimiterMiddleware.ts): a JSON list of      *)
(*                         {timeStamp, requestCount} per IP, GET, then     *)
(*                         SET .. EX rateLimitWindow of the whole list.    *)
(* One key (one req.ip) is modelled.  A check is two steps: the GET        *)
(* reaching Redis, and the callback that decides and issues its write.     *)
(* The clock is in milliseconds (Date.now()).                              *)
(* Also modelled: the in-memory story list of storyController.ts and the   *)
(* WebSocket relay of server.js with its CollaborationProvider clients.    *)
(***************************************************************************)
EXTENDS Integers, Sequences, FiniteSets, Bags, TLC

\* ---------------------------------------------------------------- constants
requestLimits == 10
ttl == 60
rateLimitWindow == 60
maxRequests == 10

\* The two deployments; `variant` is fixed by Init.
Counter == "rateLimitMiddleware"
Log == "rateLimiterMiddleware"

\* ------------------------------------------------------------------- bounds
\* Clock readings (ms) at which steps happen: half a second either side of
\* each multiple of the window, one second after the start, and a reading more
\* than two windows after the readings around the first window's end.
Instants == {0, 500, 1000, 59500, 60000, 60500, 119500, 120000, 120500, 180500}
\* Checks in flight at once in SpecRace.
MaxRace == 2
\* Longest time (ms) between a GET and its callback in Spec.
MaxLatency == 500
\* Last clock reading (ms) of SpecOverlap.
OverlapHorizon == 60000
\* Clock reading (ms) at which the traffic of SpecOverlap starts.
OverlapFrom == 59500
\* Most stories held at once.
MaxStories == 2
\* Request bodies of the story routes.
Titles == {"t1", "t2"}
Contents == {"c1", "c2"}
\* WebSocket clients, and the calls of sendMessage over all of them.
NumClients == 2
MaxSent == 3
Clients == 1..NumClients
Messages == {"m1", "m2"}

VARIABLES
  variant,     \* which middleware is deployed
  now,         \* Date.now(), ms
  store,       \* the Redis key req.ip: [has, val, exp]
  pending,     \* bag of GET replies whose callback has not run yet
  last,        \* outcome of the most recently finished check
  firstReqAt,  \* arrival time of the first check, -1 before it
  lastReqAt,   \* arrival time of the most recent check, -1 before the first
  winAdmitted, \* next() calls in the aligned window floor(now / W)
  stories,     \* storyController: the in-memory list
  req,         \* storyController: the request handled last
  res,         \* storyController: the response to it
  readyState,  \* per client: state of its WebSocket connection
  uplink,      \* per client: frames sent, not yet received by the server
  downlink,    \* per client: frames the server sent, not yet delivered
  messages,    \* per client: the messages state of CollaborationProvider
  heard,       \* per client: what the server received while it was open
  sent         \* calls of sendMessage so far

limiterVars ==
  <<variant, now, store, pending, last, firstReqAt, lastReqAt, winAdmitted>>
storyVars == <<stories, req, res>>
wsVars == <<readyState, uplink, downlink, messages, heard, sent>>
vars == <<limiterVars, storyVars, wsVars>>

\* ------------------------------------------------------------ Redis values
\* exp is the absolute expiry in ms; NoExpiry is a key without TTL.
NoExpiry == -1
NoKey == [has |-> FALSE, val |-> <<>>, exp |-> NoExpiry]

\* Redis keeps integers as decimal strings: a string is its digit sequence.
RECURSIVE Decimal(_)
Decimal(n) == IF n < 10 THEN <<n>> ELSE Decimal(n \div 10) \o <<n % 10>>

RECURSIVE parseInt(_)
parseInt(s) ==
  IF Len(s) = 0 THEN 0
  ELSE 10 * parseInt(SubSeq(s, 1, Len(s) - 1)) + s[Len(s)]

\* SET key val EX seconds, executed at time t.
RedisSetEx(val, seconds, t) == [has |-> TRUE, val |-> val, exp |-> t + seconds * 1000]

\* INCR key: keeps the TTL of a live key, creates "1" without TTL otherwise.
RedisIncr(s) ==
  IF s.has THEN [s EXCEPT !.val = Decimal(parseInt(s.val) + 1)]
  ELSE [has |-> TRUE, val |-> Decimal(1), exp |-> NoExpiry]

\* The key as Redis holds it at time t: gone once its expiry is reached.
Expire(s, t) == IF s.has /\ s.exp # NoExpiry /\ s.exp <= t THEN NoKey ELSE s

\* GET key -> the reply handed to the callback (err, record).
GetReply(s) == [err |-> FALSE, null |-> ~s.has, val |-> s.val]
ErrReply == [err |-> TRUE, null |-> TRUE, val |-> <<>>]

\* ------------------------------------------------- rateLimitMiddleware (counter)
\* Mutant: the rejected request is counted too (INCR before the limit test).
CounterCallbackCountsRejected(reply, s) ==
  IF reply.err THEN <<"throw", s>>
  ELSE IF reply.null THEN <<"next", RedisSetEx(Decimal(1), ttl, now)>>
  ELSE IF parseInt(reply.val) >= requestLimits THEN <<"429", RedisIncr(s)>>
  ELSE <<"next", RedisIncr(s)>>

\* Mutant: the limit test is off by one (> for >=).
CounterCallbackOffByOne(reply, s) ==
  IF reply.err THEN <<"throw", s>>
  ELSE IF reply.null THEN <<"next", RedisSetEx(Decimal(1), ttl, now)>>
  ELSE IF parseInt(reply.val) > requestLimits THEN <<"429", s>>
  ELSE <<"next", RedisIncr(s)>>

\* The callback of redisClient.get: <<outcome, store afterwards>>.
CounterCallback(reply, s) ==
  IF reply.err THEN <<"throw", s>>
  ELSE IF reply.null THEN <<"next", RedisSetEx(Decimal(1), ttl, now)>>
  ELSE IF parseInt(reply.val) >= requestLimits THEN <<"429", s>>
  ELSE <<"next", RedisIncr(s)>>

\* ------------------------------------------------ rateLimiterMiddleware (list)
RECURSIVE Filter(_, _)
Filter(data, windowStartTimestamp) ==
  IF data = <<>> THEN <<>>
  ELSE (IF Head(data).timeStamp > windowStartTimestamp THEN <<Head(data)>> ELSE <<>>)
       \o Filter(Tail(data), windowStartTimestamp)

RECURSIVE Total(_)
Total(entries) ==
  IF entries = <<>> THEN 0 ELSE Head(entries).requestCount + Total(Tail(entries))

\* The else-branch of the limit test: bump the last log or push a new one.
AddRequestLog(requestsWithinWindow, currentRequestTime) ==
  LET n == Len(requestsWithinWindow)
      lastRequestLog == requestsWithinWindow[n]
  IN IF lastRequestLog.timeStamp > currentRequestTime - 1000
     THEN [requestsWithinWindow EXCEPT ![n].requestCount = @ + 1]
     ELSE requestsWithinWindow
          \o <<[timeStamp |-> currentRequestTime, requestCount |-> 1]>>

\* Mutant: the write-back is an atomic read-modify-write of the stored list,
\* not of the list the GET returned.
LogCallbackOnStore(reply, s) ==
  LET currentRequestTime == now
      windowStartTimestamp == currentRequestTime - rateLimitWindow * 1000
      requestsWithinWindow == Filter(s.val, windowStartTimestamp)
      totalWindowRequests == Total(Filter(reply.val, windowStartTimestamp))
  IN IF reply.err THEN <<"throw", s>>
     ELSE IF reply.null /\ ~s.has
       THEN <<"next", RedisSetEx(<<[timeStamp |-> currentRequestTime, requestCount |-> 1]>>,
                                 rateLimitWindow, now)>>
     ELSE IF totalWindowRequests >= maxRequests THEN <<"429", s>>
     ELSE IF requestsWithinWindow = <<>> THEN <<"typeError", s>>
     ELSE <<"next", RedisSetEx(AddRequestLog(requestsWithinWindow, currentRequestTime),
                               rateLimitWindow, now)>>

\* Mutant: the limit test is off by one (> for >=).
LogCallbackOffByOne(reply, s) ==
  LET currentRequestTime == now
      windowStartTimestamp == currentRequestTime - rateLimitWindow * 1000
      requestsWithinWindow == Filter(reply.val, windowStartTimestamp)
      totalWindowRequests == Total(requestsWithinWindow)
  IN IF reply.err THEN <<"throw", s>>
     ELSE IF reply.null
       THEN <<"next", RedisSetEx(<<[timeStamp |-> currentRequestTime, requestCount |-> 1]>>,
                                 rateLimitWindow, now)>>
     ELSE IF totalWindowRequests > maxRequests THEN <<"429", s>>
     ELSE IF requestsWithinWindow = <<>> THEN <<"typeError", s>>
     ELSE <<"next", RedisSetEx(AddRequestLog(requestsWithinWindow, currentRequestTime),
                               rateLimitWindow, now)>>

\* The callback of redisClient.get: <<outcome, store afterwards>>.
LogCallback(reply, s) ==
  LET currentRequestTime == now
      windowStartTimestamp == currentRequestTime - rateLimitWindow * 1000
      requestsWithinWindow == Filter(reply.val, windowStartTimestamp)
      totalWindowRequests == Total(requestsWithinWindow)
  IN IF reply.err THEN <<"throw", s>>
     ELSE IF reply.null
       THEN <<"next", RedisSetEx(<<[timeStamp |-> currentRequestTime, requestCount |-> 1]>>,
                                 rateLimitWindow, now)>>
     ELSE IF totalWindowRequests >= maxRequests THEN <<"429", s>>
     \* lastRequestLog is undefined: reading .timeStamp throws a TypeError
     ELSE IF requestsWithinWindow = <<>> THEN <<"typeError", s>>
     ELSE <<"next", RedisSetEx(AddRequestLog(requestsWithinWindow, currentRequestTime),
                               rateLimitWindow, now)>>

\* ------------------------------------------------------------------ helpers
W == IF variant = Counter THEN ttl ELSE rateLimitWindow
N == IF variant = Counter THEN requestLimits ELSE maxRequests
WindowIndex(t) == t \div (W * 1000)

NoCheck == [outcome |-> "none", err |-> FALSE, reqAt |-> -1, doneAt |-> -1,
            gap |-> FALSE, retry |-> FALSE]

\* ---------------------------------------------------------- storyController
\* Array.prototype.findIndex for story.id === n: the first matching position
\* (from 1), 0 where the code gets -1.  The mutant returns the last position
\* for a miss, which is what splice(-1, 1) and stories[-1] would touch.
findIndexOrLast(list, n) ==
  IF \E i \in 1..Len(list) : list[i].id = n
    THEN CHOOSE i \in 1..Len(list) :
           list[i].id = n /\ \A j \in 1..(i - 1) : list[j].id # n
    ELSE Len(list)

findIndex(list, n) ==
  IF \E i \in 1..Len(list) : list[i].id = n
    THEN CHOOSE i \in 1..Len(list) :
           list[i].id = n /\ \A j \in 1..(i - 1) : list[j].id # n
    ELSE 0

\* stories.splice(storyIndex, 1)
splice(list, storyIndex) ==
  SubSeq(list, 1, storyIndex - 1) \o SubSeq(list, storyIndex + 1, Len(list))

\* req.params.id: decimal strings, some of which match no story.
IdParams == {Decimal(n) : n \in 0..(MaxStories + 1)}

NoRequest == [op |-> "none", id |-> <<>>, title |-> "", content |-> ""]
NoResponse == [status |-> 0, body |-> <<>>, text |-> ""]
NotFound == [status |-> 404, body |-> <<>>, text |-> "Story not found"]

\* ---------------------------------------------------------------------- Init
Init ==
  /\ variant \in {Counter, Log}
  /\ now = 0
  /\ store = NoKey
  /\ pending = EmptyBag
  /\ last = NoCheck
  /\ firstReqAt = -1
  /\ lastReqAt = -1
  /\ winAdmitted = 0
  /\ stories = <<>>
  /\ req = NoRequest
  /\ res = NoResponse
  /\ readyState = [c \in Clients |-> "CONNECTING"]
  /\ uplink = [c \in Clients |-> <<>>]
  /\ downlink = [c \in Clients |-> <<>>]
  /\ messages = [c \in Clients |-> <<>>]
  /\ heard = [c \in Clients |-> <<>>]
  /\ sent = 0

\* ------------------------------------------------------------------- actions
\* A request arrives and its GET is answered by Redis.  reqAt, gap and retry
\* record how the request relates to the traffic before it:
\*   gap    more than two windows have passed since the previous request;
\*   retry  the previous request was answered 429, at least one window ago,
\*          and nothing arrived since.
Arrive(reply) ==
  /\ pending' = pending (+) SetToBag({
         [reply |-> reply,
          reqAt |-> now,
          gap |-> lastReqAt >= 0 /\ now - lastReqAt > 2 * W * 1000,
          retry |-> /\ pending = EmptyBag
                    /\ last.outcome = "429"
                    /\ lastReqAt = last.reqAt
                    /\ now - last.doneAt >= W * 1000]})
  /\ firstReqAt' = IF firstReqAt = -1 THEN now ELSE firstReqAt
  /\ lastReqAt' = now
  /\ UNCHANGED <<variant, now, store, last, winAdmitted, storyVars, wsVars>>

Get(maxPending) ==
  /\ BagCardinality(pending) < maxPending
  /\ Arrive(GetReply(store))

\* The store is unreachable or times out: the callback gets err.
GetFail(maxPending) ==
  /\ BagCardinality(pending) < maxPending
  /\ Arrive(ErrReply)

\* The callback of one pending GET runs to completion.
Callback ==
  \E p \in BagToSet(pending) :
    LET r == IF variant = Counter THEN CounterCallback(p.reply, store)
             ELSE LogCallback(p.reply, store)
    IN /\ pending' = pending (-) SetToBag({p})
       /\ store' = r[2]
       /\ last' = [outcome |-> r[1], err |-> p.reply.err, reqAt |-> p.reqAt,
                   doneAt |-> now, gap |-> p.gap, retry |-> p.retry]
       /\ winAdmitted' = IF r[1] = "next" THEN winAdmitted + 1 ELSE winAdmitted
       /\ UNCHANGED <<variant, now, firstReqAt, lastReqAt, storyVars, wsVars>>

\* The clock moves to the next reading; Redis drops the key if it expired.
\* With prompt, no callback is left waiting longer than MaxLatency.
Tick(prompt) ==
  /\ \E t \in Instants : t > now
  /\ LET t == CHOOSE t \in Instants : t > now /\ \A u \in Instants : u > now => t <= u
     IN /\ prompt => \A p \in BagToSet(pending) : t - p.reqAt <= MaxLatency
        /\ now' = t
        /\ store' = Expire(store, t)
        /\ winAdmitted' = IF WindowIndex(t) = WindowIndex(now) THEN winAdmitted ELSE 0
  /\ UNCHANGED <<variant, pending, last, firstReqAt, lastReqAt, storyVars, wsVars>>

\* storyController.createStory
createStory(title, content) ==
  /\ Len(stories) < MaxStories
  /\ LET newStory == [id |-> Len(stories) + 1, title |-> title, content |-> content]
     IN /\ stories' = stories \o <<newStory>>
        /\ res' = [status |-> 201, body |-> <<newStory>>, text |-> ""]
  /\ req' = [op |-> "createStory", id |-> <<>>, title |-> title, content |-> content]
  /\ UNCHANGED <<limiterVars, wsVars>>

\* storyController.updateStory
updateStory(id, title, content) ==
  /\ LET storyIndex == findIndex(stories, parseInt(id))
     IN IF storyIndex = 0
          THEN res' = NotFound /\ stories' = stories
          ELSE /\ stories' = [stories EXCEPT ![storyIndex] =
                                [@ EXCEPT !.title = title, !.content = content]]
               /\ res' = [status |-> 200, body |-> <<stories'[storyIndex]>>, text |-> ""]
  /\ req' = [op |-> "updateStory", id |-> id, title |-> title, content |-> content]
  /\ UNCHANGED <<limiterVars, wsVars>>

\* storyController.deleteStory
deleteStory(id) ==
  /\ LET storyIndex == findIndex(stories, parseInt(id))
     IN IF storyIndex = 0
          THEN res' = NotFound /\ stories' = stories
          ELSE /\ stories' = splice(stories, storyIndex)
               /\ res' = [status |-> 204, body |-> <<>>, text |-> ""]
  /\ req' = [op |-> "deleteStory", id |-> id, title |-> "", content |-> ""]
  /\ UNCHANGED <<limiterVars, wsVars>>

\* A CollaborationProvider's socket opens; the server's 'connection' handler
\* runs and the socket is in wss.clients, OPEN.
connection(c) ==
  /\ readyState[c] = "CONNECTING"
  /\ readyState' = [readyState EXCEPT ![c] = "OPEN"]
  /\ UNCHANGED <<limiterVars, storyVars, uplink, downlink, messages, heard, sent>>

\* CollaborationProvider.sendMessage: sends only on an OPEN socket, and does
\* not touch the provider's own messages.
sendMessage(c, message) ==
  /\ sent < MaxSent
  /\ sent' = sent + 1
  /\ uplink' = IF readyState[c] = "OPEN"
                 THEN [uplink EXCEPT ![c] = Append(@, message)]
                 ELSE uplink
  /\ UNCHANGED <<limiterVars, storyVars, readyState, downlink, messages, heard>>

\* ws.on('message') of the server for the socket of client c: the frame goes to
\* every client of wss.clients that is not ws and is OPEN.  heard records the
\* frame for every client that is OPEN, the sender included.
onServerMessage(c) ==
  /\ uplink[c] # <<>>
  /\ LET message == Head(uplink[c])
     IN /\ downlink' = [client \in Clients |->
                          IF client # c /\ readyState[client] = "OPEN"
                            THEN Append(downlink[client], message)
                            ELSE downlink[client]]
        /\ heard' = [client \in Clients |->
                       IF readyState[client] = "OPEN"
                         THEN Append(heard[client], message)
                         ELSE heard[client]]
  /\ uplink' = [uplink EXCEPT ![c] = Tail(@)]
  /\ UNCHANGED <<limiterVars, storyVars, readyState, messages, sent>>

\* socket.onmessage of client c: setMessages([...prevMessages, event.data]).
onmessage(c) ==
  /\ readyState[c] = "OPEN"
  /\ downlink[c] # <<>>
  /\ messages' = [messages EXCEPT ![c] = Append(@, Head(downlink[c]))]
  /\ downlink' = [downlink EXCEPT ![c] = Tail(@)]
  /\ UNCHANGED <<limiterVars, storyVars, readyState, uplink, heard, sent>>

\* The provider unmounts: socket.close().  Frames not yet delivered are lost.
close(c) ==
  /\ readyState[c] = "OPEN"
  /\ readyState' = [readyState EXCEPT ![c] = "CLOSED"]
  /\ downlink' = [downlink EXCEPT ![c] = <<>>]
  /\ UNCHANGED <<limiterVars, storyVars, uplink, messages, heard, sent>>

\* ------------------------------------------------------------ specifications
\* Sequential checks: one in flight at a time.  The GET may fail, and the
\* clock may move between a check's GET and its callback, by MaxLatency at most.
Next == Get(1) \/ GetFail(1) \/ Callback \/ Tick(TRUE)
Spec == Init /\ [][Next]_vars

\* Sequential checks, a callback being allowed to wait any time for its reply.
NextSlow == Get(1) \/ GetFail(1) \/ Callback \/ Tick(FALSE)
SpecSlow == Init /\ [][NextSlow]_vars

\* Concurrent checks at one instant: up to MaxRace in flight.
NextRace == Get(MaxRace) \/ Callback
SpecRace == Init /\ [][NextRace]_vars

\* Overlapping checks around a window boundary: traffic starts at OverlapFrom,
\* up to MaxRace checks are in flight, each callback within MaxLatency of its
\* GET, and the clock moves up to OverlapHorizon.
NextOverlap ==
  \/ (now >= OverlapFrom /\ Get(MaxRace))
  \/ Callback
  \/ (Tick(TRUE) /\ now' <= OverlapHorizon)
SpecOverlap == Init /\ [][NextOverlap]_vars

\* The story routes, called in any order.
NextStories ==
  \/ \E title \in Titles, content \in Contents : createStory(title, content)
  \/ \E id \in IdParams, title \in Titles, content \in Contents :
       updateStory(id, title, content)
  \/ \E id \in IdParams : deleteStory(id)
SpecStories == Init /\ [][NextStories]_vars

\* The WebSocket server and its clients.
NextSockets ==
  \/ \E c \in Clients : connection(c)
  \/ \E c \in Clients, message \in Messages : sendMessage(c, message)
  \/ \E c \in Clients : onServerMessage(c)
  \/ \E c \in Clients : onmessage(c)
  \/ \E c \in Clients : close(c)
SpecSockets == Init /\ [][NextSockets]_vars

\* ------------------------------------------------------- derived quantities
\* The number of requests the stored record accounts for at the current time.
Counted(s) ==
  IF ~s.has THEN 0
  ELSE IF variant = Counter THEN parseInt(s.val)
  ELSE Total(Filter(s.val, now - rateLimitWindow * 1000))

\* The number of requests a GET reply accounts for when its callback runs.
ReadCount(reply) ==
  IF reply.null THEN 0
  ELSE IF variant = Counter THEN parseInt(reply.val)
  ELSE Total(Filter(reply.val, now - rateLimitWindow * 1000))

\* The newest time a stored record carries: the list's last timeStamp; the
\* counter's creation time, which its expiry gives (-1 for a key without TTL).
RecordAt(s) ==
  IF variant = Log THEN s.val[Len(s.val)].timeStamp
  ELSE IF s.exp = NoExpiry THEN -1
  ELSE s.exp - ttl * 1000

\* Requests the limiter would still admit, one after the other, right now.
Capacity == IF Counted(store) >= N THEN 0 ELSE N - Counted(store)

\* ------------------------------------------------------------------- claims

\* C1. Race safety: checks for one key issued concurrently at one instant,
\* starting from no record, admit at most N of them.
RaceSafety == (now = 0 /\ firstReqAt <= 0) => winAdmitted <= N

\* C2. Quota bound: sequential checks whose timestamps fall in one aligned
\* window [k*W, (k+1)*W) admit at most N, whatever record the window began with.
QuotaBound == \A k \in 0..3 : WindowIndex(now) = k => winAdmitted <= N

\* C3. A rejected check does not mutate the store: the step in which a
\* callback answers 429 leaves the key's value and expiry as they were.
RejectLeavesStore ==
  [][(BagCardinality(pending') < BagCardinality(pending) /\ last'.outcome = "429")
       => store' = store]_vars

RejectSeen == last.outcome = "429" /\ store.has /\ Counted(store) >= N

\* C4. A failed store read ends in a fallback decision, admit or reject: the
\* error is not thrown out of the limiter.
StoreFailureFallsBack == last.err => last.outcome \in {"next", "429"}

\* C5. From no record, checks made one after the other at one instant t0: the
\* first N are admitted and every later one is rejected; a check at t0 + W,
\* with no traffic in between, is admitted.
ConcreteScenario ==
  /\ (firstReqAt = now /\ ~last.err) =>
        /\ last.outcome \in {"none", "next", "429"}
        /\ winAdmitted <= N
        /\ last.outcome = "429" => winAdmitted = N
  /\ (last.retry /\ ~last.err /\ last.reqAt = firstReqAt + W * 1000) =>
        last.outcome = "next"

ScenarioSeen ==
  /\ last.retry /\ last.reqAt = firstReqAt + W * 1000
  /\ last.outcome = "next"
  /\ winAdmitted = 1

\* C6. Every record in the store carries a TTL.
EveryRecordHasTTL == store.has => store.exp # NoExpiry

\* C7. Gap handling: a check arriving more than 2W after the previous request
\* is admitted.
GapAdmits == (last.gap /\ ~last.err) => last.outcome = "next"

\* C8. Retry-after: a check rejected and retried one window later, with no
\* other traffic in between, is admitted.
RetryAdmitted == (last.retry /\ ~last.err) => last.outcome = "next"

\* C9. Lost update: an admitted check writes back what it read plus itself,
\* whatever the store holds by then (rateLimiterMiddleware always; the counter
\* when it read no record), so two checks that read the same record are both
\* admitted and the stored count accounts for one of them.
LostUpdate ==
  [][\A p \in BagToSet(pending) :
        (/\ pending' = pending (-) SetToBag({p})
         /\ last'.outcome = "next"
         /\ variant = Log \/ p.reply.null)
        => /\ store'.has
           /\ Counted(store)' = ReadCount(p.reply) + 1]_vars

LostUpdateSeen ==
  /\ pending = EmptyBag
  /\ winAdmitted = 2
  /\ Counted(store) = 1

\* C10. Boundary decay: capacity comes back gradually; never do all N slots of a
\* key that has none left become available in one step of at most a second.
NoAbruptReset ==
  [][(now' - now <= 1000 /\ Capacity = 0) => Capacity' < N]_vars

\* C11. A write-back that lost a race leaves the stored record intact: the
\* callback of a check whose read is no longer what the store holds does not
\* change the record (the check would retry from a fresh read instead).
StaleWriteLeavesRecord ==
  [][\A p \in BagToSet(pending) :
        (/\ pending' = pending (-) SetToBag({p})
         /\ ~p.reply.err
         /\ p.reply # GetReply(store))
        => store' = store]_vars

\* C12. The window a key's record represents never regresses: no write replaces
\* a record by one whose newest time lies in an older window.
WindowNeverRegresses ==
  [][(store.has /\ store'.has)
       => WindowIndex(RecordAt(store')) >= WindowIndex(RecordAt(store))]_vars

\* C14. Exactly one outcome per check of rateLimiterMiddleware whose store read
\* succeeded: next() or a 429 response.
ExactlyOneOutcome ==
  (variant = Log /\ last.outcome # "none" /\ ~last.err)
    => last.outcome \in {"next", "429"}

BroadcastToAllOpen ==
  \A c \in Clients :
    readyState[c] = "OPEN" => messages[c] \o downlink[c] = heard[c]

\* C16. Story ids are unique within the list.
UniqueStoryIds ==
  \A i, j \in 1..Len(stories) : i # j => stories[i].id # stories[j].id

\* C17. updateStory and deleteStory with an id matching no story answer 404 and
\* leave the list as it is; with a matching id, updateStory changes the title
\* and content of one story of that id and nothing else, and deleteStory
\* removes exactly one story of that id.
UpdateDeleteById ==
  [][LET id == parseInt(req'.id)
         hit == {i \in 1..Len(stories) : stories[i].id = id}
     IN /\ (req'.op \in {"updateStory", "deleteStory"} /\ hit = {})
             => res'.status = 404 /\ stories' = stories
        /\ (req'.op = "updateStory" /\ hit # {})
             => /\ res'.status = 200
                /\ \E i \in hit :
                     stories' = [stories EXCEPT ![i] =
                                   [id |-> id, title |-> req'.title,
                                    content |-> req'.content]]
        /\ (req'.op = "deleteStory" /\ hit # {})
             => /\ res'.status = 204
                /\ \E i \in hit :
                     stories' = SubSeq(stories, 1, i - 1)
                                  \o SubSeq(stories, i + 1, Len(stories))]_vars

UpdateDeleteSeen ==
  /\ Len(stories) = 2
  /\ req.op = "updateStory" /\ res.status = 200
  /\ stories[1].title # stories[2].title
  /\ stories[1].content # stories[2].content

====
